---- MODULE Spec2Model ----
(***************************************************************************)
(* Reference Expansion Engine (src/reference_expander.py).                 *)
(*                                                                         *)
(* ReferenceExpander.expand_corpus scans a corpus, extracts candidate     *)
(* references from every document, deduplicates them, records and          *)
(* downloads the survivors and persists a run summary.  Python strings are *)
(* TLA+ strings; None is the empty string (both are falsy in the code).    *)
(***************************************************************************)
EXTENDS Integers, Sequences, FiniteSets, TLC

(***************************************************************************)
(* Bounds of the model.                                                    *)
(***************************************************************************)
MaxK == 2
MaxDocs == 2
MaxRuns == 2

None == ""

(***************************************************************************)
(* Character classes of Python's re module, on one-character strings.      *)
(***************************************************************************)
Char(s, i) == IF i >= 1 /\ i <= Len(s) THEN SubSeq(s, i, i) ELSE ""

UpperChars ==
    {"A", "B", "C", "D", "E", "F", "G", "H", "I", "J", "K", "L", "M",
     "N", "O", "P", "Q", "R", "S", "T", "U", "V", "W", "X", "Y", "Z"}
LowerChars ==
    {"a", "b", "c", "d", "e", "f", "g", "h", "i", "j", "k", "l", "m",
     "n", "o", "p", "q", "r", "s", "t", "u", "v", "w", "x", "y", "z"}
DigitChars == {"0", "1", "2", "3", "4", "5", "6", "7", "8", "9"}

InChars(c, cs) == c \in cs

\* the lower-case letter of each upper-case letter
LowerOf ==
    [A |-> "a", B |-> "b", C |-> "c", D |-> "d", E |-> "e", F |-> "f", G |-> "g",
     H |-> "h", I |-> "i", J |-> "j", K |-> "k", L |-> "l", M |-> "m", N |-> "n",
     O |-> "o", P |-> "p", Q |-> "q", R |-> "r", S |-> "s", T |-> "t", U |-> "u",
     V |-> "v", W |-> "w", X |-> "x", Y |-> "y", Z |-> "z"]

IsDigit(c) == InChars(c, DigitChars)
IsAlnum(c) == InChars(c, DigitChars) \/ InChars(c, LowerChars) \/ InChars(c, UpperChars)
IsWord(c) == IsAlnum(c) \/ c = "_"
IsSpace(c) == c = " " \/ c = "\n" \/ c = "\t"

LowerChar(c) == IF InChars(c, UpperChars) THEN LowerOf[c] ELSE c

RECURSIVE Lower(_)
Lower(s) == IF s = "" THEN "" ELSE LowerChar(Char(s, 1)) \o Lower(SubSeq(s, 2, Len(s)))

(* s[i:] starts with lit (re.IGNORECASE when ci) *)
StartsAt(s, i, lit, ci) ==
    /\ i >= 1
    /\ i + Len(lit) - 1 <= Len(s)
    /\ IF ci
       THEN \A k \in 1..Len(lit) : LowerChar(Char(s, i + k - 1)) = LowerChar(Char(lit, k))
       ELSE SubSeq(s, i, i + Len(lit) - 1) = lit

(* Python's "sub in s" *)
Contains(s, sub) == \E i \in 1..(Len(s) + 1) : StartsAt(s, i, sub, FALSE)

(* index one past the maximal run of characters satisfying the class, from i *)
RECURSIVE DigitRunEnd(_, _)
DigitRunEnd(s, i) == IF IsDigit(Char(s, i)) THEN DigitRunEnd(s, i + 1) ELSE i

RECURSIVE WordRunEnd(_, _)
WordRunEnd(s, i) == IF IsWord(Char(s, i)) THEN WordRunEnd(s, i + 1) ELSE i

RECURSIVE SpaceRunEnd(_, _)
SpaceRunEnd(s, i) == IF IsSpace(Char(s, i)) THEN SpaceRunEnd(s, i + 1) ELSE i

RECURSIVE NonSpaceRunEnd(_, _)
NonSpaceRunEnd(s, i) ==
    IF i <= Len(s) /\ ~IsSpace(Char(s, i)) THEN NonSpaceRunEnd(s, i + 1) ELSE i

(***************************************************************************)
(* re.findall for the patterns compiled in __init__.  Each XxxEndAt gives  *)
(* the index of the last character of the match that starts at p, or 0     *)
(* when the pattern does not match at p.                                   *)
(***************************************************************************)

(* largest q in lo..hi with an alphanumeric character, else 0 *)
LastAlnum(s, lo, hi) ==
    LET qs == {q \in lo..hi : IsAlnum(Char(s, q))}
    IN IF qs = {} THEN 0 ELSE CHOOSE q \in qs : \A r \in qs : r <= q

\* doi_pattern  10\.\d{4,}[^\s]*[a-zA-Z0-9]
DoiEndAt(s, p) ==
    IF /\ StartsAt(s, p, "10.", TRUE)
       /\ DigitRunEnd(s, p + 3) >= p + 7
    THEN LastAlnum(s, p + 7, NonSpaceRunEnd(s, p) - 1)
    ELSE 0

\* arxiv_pattern  arXiv:(\d{4}\.\d{4,5})
ArxivEndAt(s, p) ==
    IF /\ StartsAt(s, p, "arxiv:", TRUE)
       /\ \A j \in (p + 6)..(p + 9) : IsDigit(Char(s, j))
       /\ Char(s, p + 10) = "."
       /\ \A j \in (p + 11)..(p + 14) : IsDigit(Char(s, j))
    THEN IF IsDigit(Char(s, p + 15)) THEN p + 15 ELSE p + 14
    ELSE 0

UrlChar(c) == c # "" /\ ~IsSpace(c) /\ c \notin {"<", ">", "\"", "'"}

RECURSIVE UrlRunEnd(_, _)
UrlRunEnd(s, i) == IF UrlChar(Char(s, i)) THEN UrlRunEnd(s, i + 1) ELSE i

\* url_pattern  https?://[^\s<>"\']+
UrlEndAt(s, p) ==
    LET b == IF StartsAt(s, p, "https://", TRUE) THEN p + 8
             ELSE IF StartsAt(s, p, "http://", TRUE) THEN p + 7
             ELSE 0
    IN IF b # 0 /\ UrlRunEnd(s, b) > b THEN UrlRunEnd(s, b) - 1 ELSE 0

\* first e >= g such that the lookahead (?=\[|\n|$) holds after e
RECURSIVE LazyEnd(_, _)
LazyEnd(s, g) ==
    IF g >= Len(s) \/ Char(s, g + 1) = "[" \/ Char(s, g + 1) = "\n"
    THEN g ELSE LazyEnd(s, g + 1)

\* citation_patterns[0]  \[(\d+)\]\s*([^[]+?)(?=\[|\n|$)
\* <<end, start of group 2>>, or <<0, 0>>
IeeeAt(s, p) ==
    LET d == DigitRunEnd(s, p + 1)
        a == d + 1
        g == SpaceRunEnd(s, a)
    IN IF Char(s, p) = "[" /\ d > p + 1 /\ Char(s, d) = "]"
       THEN IF g <= Len(s) /\ Char(s, g) # "["
            THEN <<LazyEnd(s, g), g>>
            ELSE IF g > a THEN <<g - 1, g - 1>> ELSE <<0, 0>>
       ELSE <<0, 0>>

\* the repeated group (?:,\s*\w+) after the first \w+ : index one past the author list
RECURSIVE AuthorsEnd(_, _)
AuthorsEnd(s, i) ==
    LET w == SpaceRunEnd(s, i + 1)
    IN IF Char(s, i) = "," /\ WordRunEnd(s, w) > w
       THEN AuthorsEnd(s, WordRunEnd(s, w))
       ELSE i

(* index of the next "." at or after i, else 0 *)
RECURSIVE NextDot(_, _)
NextDot(s, i) ==
    IF i > Len(s) THEN 0 ELSE IF Char(s, i) = "." THEN i ELSE NextDot(s, i + 1)

\* citation_patterns[1]  (\w+(?:,\s*\w+)*)\s*\((\d{4})\)\.\s*([^.]+\.)
\* <<end, end of group 1, start of group 2, start of group 3>>
ApaAt(s, p) ==
    LET e1 == AuthorsEnd(s, WordRunEnd(s, p))
        o == SpaceRunEnd(s, e1)
        t == o + 7
        g == SpaceRunEnd(s, t)
        g3 == IF Char(s, g) = "." /\ g > t THEN g - 1 ELSE g
        dot == NextDot(s, g3 + 1)
    IN IF /\ IsWord(Char(s, p))
          /\ Char(s, o) = "("
          /\ \A j \in (o + 1)..(o + 4) : IsDigit(Char(s, j))
          /\ Char(s, o + 5) = ")"
          /\ Char(s, o + 6) = "."
          /\ g3 <= Len(s) /\ Char(s, g3) # "."
          /\ dot # 0
       THEN <<dot, e1 - 1, o + 1, g3>>
       ELSE <<0, 0, 0, 0>>

RECURSIVE DoiFindall(_, _)
DoiFindall(s, p) ==
    IF p > Len(s) THEN <<>>
    ELSE LET e == DoiEndAt(s, p)
         IN IF e # 0 THEN <<SubSeq(s, p, e)>> \o DoiFindall(s, e + 1)
            ELSE DoiFindall(s, p + 1)

RECURSIVE ArxivFindall(_, _)
ArxivFindall(s, p) ==
    IF p > Len(s) THEN <<>>
    ELSE LET e == ArxivEndAt(s, p)
         IN IF e # 0 THEN <<SubSeq(s, p + 6, e)>> \o ArxivFindall(s, e + 1)
            ELSE ArxivFindall(s, p + 1)

RECURSIVE UrlFindall(_, _)
UrlFindall(s, p) ==
    IF p > Len(s) THEN <<>>
    ELSE LET e == UrlEndAt(s, p)
         IN IF e # 0 THEN <<SubSeq(s, p, e)>> \o UrlFindall(s, e + 1)
            ELSE UrlFindall(s, p + 1)

\* findall with several groups returns tuples of the groups
RECURSIVE IeeeFindall(_, _)
IeeeFindall(s, p) ==
    IF p > Len(s) THEN <<>>
    ELSE LET m == IeeeAt(s, p)
         IN IF m[1] # 0
            THEN <<(<<SubSeq(s, p + 1, DigitRunEnd(s, p + 1) - 1),
                      SubSeq(s, m[2], m[1])>>)>> \o IeeeFindall(s, m[1] + 1)
            ELSE IeeeFindall(s, p + 1)

RECURSIVE ApaFindall(_, _)
ApaFindall(s, p) ==
    IF p > Len(s) THEN <<>>
    ELSE LET m == ApaAt(s, p)
         IN IF m[1] # 0
            THEN <<(<<SubSeq(s, p, m[2]), SubSeq(s, m[3], m[3] + 3),
                      SubSeq(s, m[4], m[1])>>)>> \o ApaFindall(s, m[1] + 1)
            ELSE ApaFindall(s, p + 1)

(***************************************************************************)
(* Python's str() of a tuple of strings: the repr of each element.         *)
(***************************************************************************)
RECURSIVE EscapeStr(_, _)
EscapeStr(s, q) ==
    IF s = "" THEN ""
    ELSE LET c == Char(s, 1)
             e == IF c = "\n" THEN "\\n"
                  ELSE IF c = "\t" THEN "\\t"
                  ELSE IF c = "\\" THEN "\\\\"
                  ELSE IF c = q THEN "\\" \o q
                  ELSE c
         IN e \o EscapeStr(SubSeq(s, 2, Len(s)), q)

ReprStr(s) ==
    IF Contains(s, "'") /\ ~Contains(s, "\"")
    THEN "\"" \o EscapeStr(s, "\"") \o "\""
    ELSE "'" \o EscapeStr(s, "'") \o "'"

RECURSIVE JoinRepr(_)
JoinRepr(t) ==
    IF Len(t) = 0 THEN ""
    ELSE IF Len(t) = 1 THEN ReprStr(t[1])
    ELSE ReprStr(t[1]) \o ", " \o JoinRepr(Tail(t))

StrTuple(t) == "(" \o JoinRepr(t) \o ")"

(***************************************************************************)
(* The Reference dataclass.                                                *)
(***************************************************************************)
Reference(citation, url, doi, arxiv_id, title, authors, year, source_document) ==
    [citation |-> citation, url |-> url, doi |-> doi, arxiv_id |-> arxiv_id,
     title |-> title, authors |-> authors, year |-> year,
     source_document |-> source_document]

ScholarlyDomains == <<"arxiv.org", "doi.org", "pubmed", "scholar.google">>

IsScholarly(url) == \E k \in 1..Len(ScholarlyDomains) : Contains(url, ScholarlyDomains[k])

RECURSIVE DoiRefs(_, _)
DoiRefs(ms, src) ==
    IF ms = <<>> THEN <<>>
    ELSE <<Reference("DOI: " \o Head(ms), None, Head(ms), None, None, None, None, src)>>
         \o DoiRefs(Tail(ms), src)

RECURSIVE ArxivRefs(_, _)
ArxivRefs(ms, src) ==
    IF ms = <<>> THEN <<>>
    ELSE <<Reference("arXiv:" \o Head(ms),
                     "https://arxiv.org/pdf/" \o Head(ms) \o ".pdf",
                     None, Head(ms), None, None, None, src)>>
         \o ArxivRefs(Tail(ms), src)

RECURSIVE UrlRefs(_, _)
UrlRefs(ms, src) ==
    IF ms = <<>> THEN <<>>
    ELSE (IF IsScholarly(Head(ms))
          THEN <<Reference("URL: " \o Head(ms), Head(ms), None, None, None, None, None, src)>>
          ELSE <<>>)
         \o UrlRefs(Tail(ms), src)

\* one Reference per tuple match: authors = match[0], year = match[1],
\* title = match[2] when the tuple has a third element
RECURSIVE CitationRefs(_, _)
CitationRefs(ms, src) ==
    IF ms = <<>> THEN <<>>
    ELSE LET match == Head(ms)
         IN <<Reference(StrTuple(match), None, None, None,
                        IF Len(match) > 2 THEN match[3] ELSE None,
                        match[1], match[2], src)>>
            \o CitationRefs(Tail(ms), src)

\* ExtractReferencesFromText with passes that exclude each other: a text that
\* gave a reference in one pass is not searched by the later ones
ExtractReferencesExclusive(text, source_file) ==
    IF DoiFindall(text, 1) # <<>> THEN DoiRefs(DoiFindall(text, 1), source_file)
    ELSE IF ArxivFindall(text, 1) # <<>> THEN ArxivRefs(ArxivFindall(text, 1), source_file)
    ELSE IF UrlRefs(UrlFindall(text, 1), source_file) # <<>>
    THEN UrlRefs(UrlFindall(text, 1), source_file)
    ELSE CitationRefs(IeeeFindall(text, 1), source_file)
         \o CitationRefs(ApaFindall(text, 1), source_file)

\* _extract_references_from_text: the passes in their fixed order.  The third
\* citation pattern (References section) has a single group, so findall gives
\* strings, which the isinstance(match, tuple) test drops: it adds nothing.
ExtractReferencesFromText(text, source_file) ==
    DoiRefs(DoiFindall(text, 1), source_file)
    \o ArxivRefs(ArxivFindall(text, 1), source_file)
    \o UrlRefs(UrlFindall(text, 1), source_file)
    \o CitationRefs(IeeeFindall(text, 1), source_file)
    \o CitationRefs(ApaFindall(text, 1), source_file)

(***************************************************************************)
(* Paths.  A document path is relative to the corpus root.                 *)
(***************************************************************************)
\* index of the first / last occurrence of the one-character string c, else 0
RECURSIVE IndexFrom(_, _, _)
IndexFrom(s, c, i) ==
    IF i > Len(s) THEN 0 ELSE IF Char(s, i) = c THEN i ELSE IndexFrom(s, c, i + 1)

RECURSIVE RIndexFrom(_, _, _)
RIndexFrom(s, c, i) ==
    IF i < 1 THEN 0 ELSE IF Char(s, i) = c THEN i ELSE RIndexFrom(s, c, i - 1)

Find(s, c) == IndexFrom(s, c, 1)
RFind(s, c) == RIndexFrom(s, c, Len(s))

\* os.path.basename / Path.name
Basename(path) == SubSeq(path, RFind(path, "/") + 1, Len(path))

\* Path.suffix
Suffix(path) ==
    LET name == Basename(path)
        k == RFind(name, ".")
    IN IF k > 1 /\ k < Len(name) THEN SubSeq(name, k, Len(name)) ELSE ""

\* the immediate child of the corpus root a path lies under ("" for a file
\* directly in the root)
Section(path) ==
    IF Find(path, "/") = 0 THEN "" ELSE SubSeq(path, 1, Find(path, "/") - 1)

\* Python's str.replace(old, new) for a one-character old
RECURSIVE Replace(_, _, _)
Replace(s, old, new) ==
    IF s = "" THEN ""
    ELSE (IF Char(s, 1) = old THEN new ELSE Char(s, 1))
         \o Replace(SubSeq(s, 2, Len(s)), old, new)

\* smallest positive of the two indices, 0 when both are 0
MinPos(a, b) == IF a = 0 THEN b ELSE IF b = 0 THEN a ELSE IF a < b THEN a ELSE b

\* s from index k on ("" when k = 0); s before index k (s when k = 0)
FromIndex(s, k) == IF k = 0 THEN "" ELSE SubSeq(s, k, Len(s))
BeforeIndex(s, k) == IF k = 0 THEN s ELSE SubSeq(s, 1, k - 1)

\* urlsplit: the netloc ends at the first "/", "?" or "#"; the path ends at the
\* first "?" or "#"
AfterNetloc(rest) ==
    FromIndex(rest, MinPos(Find(rest, "/"), MinPos(Find(rest, "?"), Find(rest, "#"))))

StripQuery(tail) == BeforeIndex(tail, MinPos(Find(tail, "?"), Find(tail, "#")))

\* urlparse: the params of the last path segment are split off
StripParams(path) ==
    BeforeIndex(path, IndexFrom(path, ";", IF RFind(path, "/") = 0 THEN 1
                                           ELSE RFind(path, "/")))

\* urllib.parse.urlparse(url).path for a url with a scheme and "//"
UrlPath(url) ==
    StripParams(StripQuery(AfterNetloc(SubSeq(url, Find(url, ":") + 3, Len(url)))))

\* os.path.basename(...) or "document.pdf"
OrFallback(name, fallback) == IF name # "" THEN name ELSE fallback

ExpandedDirName == "EXPANDED_REFERENCES"
FallbackName == "document.pdf"

\* Filename with the DOI used as it is
FilenameRawDoi(reference) ==
    IF reference.arxiv_id # None THEN reference.arxiv_id \o ".pdf"
    ELSE IF reference.doi # None THEN reference.doi \o ".pdf"
    ELSE OrFallback(Basename(UrlPath(reference.url)), FallbackName)

\* download_reference: "Determine filename"
Filename(reference) ==
    IF reference.arxiv_id # None THEN reference.arxiv_id \o ".pdf"
    ELSE IF reference.doi # None THEN Replace(reference.doi, "/", "_") \o ".pdf"
    ELSE OrFallback(Basename(UrlPath(reference.url)), FallbackName)

TargetPath(filename) == ExpandedDirName \o "/" \o filename

(***************************************************************************)
(* Deduplication (expand_corpus, "Deduplicate references").  unique_refs   *)
(* is a dict, which keeps insertion order: a sequence of <<key, ref>>.      *)
(***************************************************************************)
DedupKey(ref) ==
    IF ref.doi # None THEN ref.doi
    ELSE IF ref.arxiv_id # None THEN ref.arxiv_id
    ELSE IF ref.url # None THEN ref.url
    ELSE ref.citation

HasKey(items, key) == \E j \in 1..Len(items) : items[j][1] = key

\* DedupStep with the duplicate counter left alone
DedupStepUncounted(acc, ref) ==
    IF ~HasKey(acc.items, DedupKey(ref))
    THEN [acc EXCEPT !.items = Append(@, <<DedupKey(ref), ref>>)]
    ELSE acc

\* DedupStep without the membership test: every candidate is kept
DedupStepKeepAll(acc, ref) ==
    [acc EXCEPT !.items = Append(@, <<DedupKey(ref), ref>>)]

\* one iteration of the deduplication loop
DedupStep(acc, ref) ==
    IF ~HasKey(acc.items, DedupKey(ref))
    THEN [acc EXCEPT !.items = Append(@, <<DedupKey(ref), ref>>)]
    ELSE [acc EXCEPT !.skipped = @ + 1]

RECURSIVE DedupFrom(_, _)
DedupFrom(refs, acc) ==
    IF refs = <<>> THEN acc ELSE DedupFrom(Tail(refs), DedupStep(acc, Head(refs)))

Deduplicate(refs) == DedupFrom(refs, [items |-> <<>>, skipped |-> 0])

(***************************************************************************)
(* download_reference.  env is what the collaborators do in this call:     *)
(*   resolved  the URL the DOI resolver returns, None when it fails        *)
(*   raise    "none", "spawn" (subprocess.run raises before curl writes)   *)
(*             or "after" (an exception once curl has run)                 *)
(*   rc        curl's return code                                          *)
(*   size      size of the file curl leaves, 0 when it leaves none         *)
(* The result carries the returned pair, the reference with its url as the *)
(* call leaves it, the files of the target directory and the calls made.   *)
(***************************************************************************)
MinSize == 1000

FetchValid(rc, exists, size) == rc = 0 /\ exists /\ size > MinSize

NeedsResolve(reference) == reference.url = None /\ reference.doi # None

Returned(success, result, reference, files, resolver_calls, curl_calls, filename) ==
    [success |-> success, result |-> result, reference |-> reference, files |-> files,
     resolver_calls |-> resolver_calls, curl_calls |-> curl_calls,
     filename |-> filename]

\* the curl call and what follows it; written is the directory as curl left it
AfterCurl(reference, filename, written, env, resolver_calls) ==
    IF env.raise = "after"
    THEN Returned(FALSE, "Download error: after", reference, written,
                  resolver_calls, 1, filename)
    ELSE IF FetchValid(env.rc, filename \in written, env.size)
    THEN Returned(TRUE, TargetPath(filename), reference, written,
                  resolver_calls, 1, filename)
    ELSE Returned(FALSE, "Download failed: ", reference, written \ {filename},
                  resolver_calls, 1, filename)

\* DownloadTo without the test for an existing file: curl is always called
DownloadToFetchAgain(reference, filename, files, env, resolver_calls) ==
    IF env.raise = "spawn"
    THEN Returned(FALSE, "Download error: spawn", reference, files,
                  resolver_calls, 1, filename)
    ELSE AfterCurl(reference, filename,
                   IF env.size > 0 THEN files \cup {filename} ELSE files,
                   env, resolver_calls)

\* the try block, once the file name is known
DownloadTo(reference, filename, files, env, resolver_calls) ==
    IF filename \in files
    THEN Returned(TRUE, TargetPath(filename), reference, files, resolver_calls, 0, filename)
    ELSE IF env.raise = "spawn"
    THEN Returned(FALSE, "Download error: spawn", reference, files,
                  resolver_calls, 1, filename)
    ELSE AfterCurl(reference, filename,
                   IF env.size > 0 THEN files \cup {filename} ELSE files,
                   env, resolver_calls)

\* DownloadResolved without the test of the URL
DownloadResolvedAnyway(reference, files, env, resolver_calls) ==
    DownloadTo(reference, Filename(reference), files, env, resolver_calls)

\* download_reference after its first statement
DownloadResolved(reference, files, env, resolver_calls) ==
    IF reference.url = None
    THEN Returned(FALSE, "No downloadable URL available", reference, files,
                  resolver_calls, 0, "")
    ELSE CHOOSE r \in {DownloadTo(reference, filename, files, env, resolver_calls) :
                           filename \in {Filename(reference)}} : TRUE

DownloadReference(reference, files, env) ==
    IF NeedsResolve(reference)
    THEN DownloadResolved([reference EXCEPT !.url = env.resolved], files, env, 1)
    ELSE DownloadResolved(reference, files, env, 0)

\* the row save_reference_to_db inserts into ref_citations
Row(reference, download_status, download_path) ==
    [citation |-> reference.citation, url |-> reference.url, doi |-> reference.doi,
     arxiv_id |-> reference.arxiv_id, title |-> reference.title,
     authors |-> reference.authors, year |-> reference.year,
     source_document |-> reference.source_document,
     download_status |-> download_status, download_path |-> download_path]

\* InsertRow overwriting the newest row instead of adding one
ReplaceRow(table, row) ==
    IF table = <<>> THEN <<row>> ELSE [table EXCEPT ![Len(table)] = row]

\* InsertRow putting the new row in front of the others
InsertRowFirst(table, row) == <<row>> \o table

\* INSERT INTO a table whose id is AUTOINCREMENT: the row goes after the others
InsertRow(table, row) == Append(table, row)

\* CountOutcome counting every outcome as a download
CountOutcomeAllDownloaded(stats, success) ==
    [stats EXCEPT !.references_downloaded = @ + 1]

\* CountOutcome leaving the failures uncounted
CountOutcomeDropsFailure(stats, success) ==
    IF success THEN [stats EXCEPT !.references_downloaded = @ + 1] ELSE stats

\* the counter the loop advances once download_reference has returned
CountOutcome(stats, success) ==
    IF success
    THEN [stats EXCEPT !.references_downloaded = @ + 1]
    ELSE [stats EXCEPT !.failed_downloads = @ + 1]

\* WriteLog writing nothing
WriteLogNothing(stats) == <<>>

\* "Save expansion log": the content of expansion_log.json, written anew
WriteLog(stats) == <<stats>>

\* BudgetExhausted with the test left out
BudgetUnchecked(count, max_downloads) == FALSE

\* BudgetExhausted with the comparison off by one
BudgetExhaustedLate(count, max_downloads) == count > max_downloads

\* the loop's test of the download budget
BudgetExhausted(count, max_downloads) == count >= max_downloads

\* "Try to download if URL available"
Downloadable(ref) == ref.url # None \/ ref.doi # None \/ ref.arxiv_id # None

(***************************************************************************)
(* The corpus on disk and the inputs of a run.                             *)
(***************************************************************************)
\* a document: its path under the corpus root, the text of a text file, the
\* page texts of a PDF
Doc(path, text, pages) == [path |-> path, text |-> text, pages |-> pages]

DocPool ==
    { Doc("papers/a.txt", "see arXiv:2301.12345 and 10.1000/xyz123", <<>>),
      Doc("papers/sub/b.md",
          "doi 10.1000/xyz123. also https://arxiv.org/pdf/2301.12345.pdf", <<>>),
      Doc("notes/c.txt", "[1] Foo  Bar\n[1] foo bar", <<>>),
      Doc("notes/d.PDF", "", <<"Smith, J (2020). A title.", "10.1000/xyz123 10.1000/xyz123.">>),
      Doc(".cache/e.txt", "arXiv:2301.12345", <<>>),
      Doc("readme.md", "10.1000/xyz123", <<>>) }

Corpora == {c \in SUBSET DocPool : Cardinality(c) <= MaxDocs}

DefaultFileTypes == <<".pdf", ".txt", ".md">>

\* the option target_sections: None when the caller gives none, else a list
NoSections == [given |-> FALSE, names |-> <<>>]
Sections(names) == [given |-> TRUE, names |-> names]

\* "if target_sections": None and the empty list are both false
Truthy(target_sections) == target_sections.given /\ target_sections.names # <<>>

Configs ==
    [max_downloads : 0..MaxK,
     target_sections : {NoSections, Sections(<<>>), Sections(<<"papers">>)},
     file_types : {DefaultFileTypes}]

\* the download directory before the run: empty, or holding a file an earlier
\* run left
InitialFiles == {{}, {"10.1000_xyz123.pdf"}}

\* the page texts pdfplumber reads from a file a download left behind
DownloadedPages == <<"cites arXiv:2301.12345">>

\* ExpandedDocs with the download directory kept out of the corpus
ExpandedDocsApart(files) == {}

\* the files of EXPANDED_REFERENCES, which lies under the corpus root, as
\* documents of the corpus
ExpandedDocs(files) ==
    {Doc(ExpandedDirName \o "/" \o f, "", DownloadedPages) : f \in files}

\* what the DOI resolver may answer, and what curl may leave behind
ResolvedUrls == {None, "https://example.org/paper.pdf"}

Envs ==
    [resolved : ResolvedUrls,
     raise : {"none", "spawn", "after"},
     rc : {0, 22},
     size : {0, MinSize - 500, MinSize, MinSize + 1}]

InSeq(x, q) == \E j \in 1..Len(q) : q[j] = x

\* the sequences that list every element of S exactly once
Orderings(S) ==
    {q \in [1..Cardinality(S) -> S] : \A a, b \in 1..Cardinality(S) : a # b => q[a] # q[b]}

\* the documents the scan selects: regular files below a non-hidden immediate
\* child directory that passes the section filter, with an eligible suffix
Selected(docs, target_sections, file_types) ==
    {d \in docs :
        /\ Section(d.path) # ""
        /\ Char(Section(d.path), 1) # "."
        /\ ~(Truthy(target_sections) /\ ~InSeq(Section(d.path), target_sections.names))
        /\ InSeq(Lower(Suffix(d.path)), file_types)}

\* iterdir and rglob enumerate in an order the filesystem chooses: any order
\* that lists the files of one section together
ScanOrders(docs) ==
    {q \in Orderings(docs) :
        \A a, b, c \in 1..Len(q) :
            (a < b /\ b < c /\ Section(q[a].path) = Section(q[c].path))
                => Section(q[b].path) = Section(q[a].path)}

\* extract_references_from_pdf: page texts, each followed by a newline
RECURSIVE PdfText(_)
PdfText(pages) ==
    IF pages = <<>> THEN ""
    ELSE (IF Head(pages) # "" THEN Head(pages) \o "\n" ELSE "") \o PdfText(Tail(pages))

\* ExtractDocument keeping the first reference of a document whose reading
\* fails
ExtractDocumentPartial(d, ok) ==
    IF Lower(Suffix(d.path)) = ".pdf"
    THEN IF ok THEN ExtractReferencesFromText(PdfText(d.pages), d.path)
         ELSE SubSeq(ExtractReferencesFromText(PdfText(d.pages), d.path), 1, 1)
    ELSE IF ok THEN ExtractReferencesFromText(d.text, d.path)
         ELSE SubSeq(ExtractReferencesFromText(d.text, d.path), 1, 1)

\* the references one document yields; ok is FALSE when reading it fails
\* (open or decode error, pdfplumber missing or raising)
ExtractDocument(d, ok) ==
    IF ~ok THEN <<>>
    ELSE IF Lower(Suffix(d.path)) = ".pdf"
    THEN ExtractReferencesFromText(PdfText(d.pages), d.path)
    ELSE ExtractReferencesFromText(d.text, d.path)

(***************************************************************************)
(* State.                                                                  *)
(***************************************************************************)
VARIABLES
    corpus,                 \* the documents under the corpus root
    expanded,               \* names of the files in EXPANDED_REFERENCES
    ref_citations,          \* table ref_citations, in id order
    expansion_history,      \* table expansion_history, in id order
    expansion_log,          \* content of expansion_log.json, <<>> before a run wrote it
    pc,                     \* position of expand_corpus
    runs,                   \* invocations of expand_corpus so far
    config,                 \* the options of the current run
    documents_to_process,
    doc_index,              \* next document of the extraction loop
    all_references,
    unique_refs,
    index,                  \* next entry of unique_refs in the download loop
    downloaded_count,
    expansion_stats,
    call,                   \* the download_reference call of the current iteration
    row_base,               \* number of ref_citations rows when the run began
    plan,                   \* CorpusExpansionExecutor: the loaded expansion plan
    local_model,            \* whether "ollama list" names the plan's model
    execution_log,
    phase_results,
    phase_index,            \* next entry of plan["expansion_plan"]
    phase_calls,            \* the execute_phase calls made, by phase name
    plan_pc,                \* position of execute_expansion_plan
    final_results           \* what execute_expansion_plan returned

vars == <<corpus, expanded, ref_citations, expansion_history, expansion_log, pc, runs,
          config, documents_to_process, doc_index, all_references, unique_refs, index,
          downloaded_count, expansion_stats, call, row_base,
          plan, local_model, execution_log, phase_results, phase_index, phase_calls,
          plan_pc, final_results>>

\* the state of expand_corpus, and that of a CorpusExpansionExecutor
expander_vars ==
    <<corpus, expanded, ref_citations, expansion_history, expansion_log, pc, runs,
      config, documents_to_process, doc_index, all_references, unique_refs, index,
      downloaded_count, expansion_stats, call, row_base>>

executor_vars ==
    <<plan, local_model, execution_log, phase_results, phase_index, phase_calls,
      plan_pc, final_results>>

ExecutionLog0 ==
    [phases_completed |-> <<>>, total_downloads |-> 0, total_failures |-> 0,
     errors |-> <<>>]

NoPlan == [expansion_plan |-> <<>>, success_criteria |-> [minimum_new_papers |-> 0]]

NotReturned == [returned |-> FALSE]

\* no CorpusExpansionExecutor at work
NoExecutor ==
    /\ plan = NoPlan
    /\ local_model = FALSE
    /\ execution_log = ExecutionLog0
    /\ phase_results = <<>>
    /\ phase_index = 1
    /\ phase_calls = <<>>
    /\ plan_pc = "none"
    /\ final_results = NotReturned

NoCall == [made |-> FALSE]

Stats0(c) ==
    [documents_processed |-> 0, references_found |-> 0, references_downloaded |-> 0,
     failed_downloads |-> 0, skipped_duplicates |-> 0, expansion_config |-> c]

\* a new references.db and no call of expand_corpus yet
NoRun ==
    /\ ref_citations = <<>>
    /\ expansion_history = <<>>
    /\ expansion_log = <<>>
    /\ pc = "idle"
    /\ runs = 0
    /\ config \in {[max_downloads |-> 0, target_sections |-> NoSections,
                    file_types |-> DefaultFileTypes]}
    /\ documents_to_process = <<>>
    /\ doc_index = 1
    /\ all_references = <<>>
    /\ unique_refs = <<>>
    /\ index = 1
    /\ downloaded_count = 0
    /\ expansion_stats = Stats0(config)
    /\ call = NoCall
    /\ row_base = 0

Fresh == NoRun /\ NoExecutor

Init ==
    /\ corpus \in Corpora
    /\ expanded \in InitialFiles
    /\ Fresh

(***************************************************************************)
(* expand_corpus, one action per stage.                                    *)
(***************************************************************************)
\* read the options, reset the statistics, find the documents
StartRun ==
    /\ pc = "idle"
    /\ \E c \in Configs :
        /\ config' = c
        /\ expansion_stats' = Stats0(c)
        /\ documents_to_process' \in
               ScanOrders(Selected(corpus \cup ExpandedDocs(expanded),
                                   c.target_sections, c.file_types))
    /\ runs' = runs + 1
    /\ doc_index' = 1
    /\ all_references' = <<>>
    /\ unique_refs' = <<>>
    /\ index' = 1
    /\ downloaded_count' = 0
    /\ call' = NoCall
    /\ row_base' = Len(ref_citations)
    /\ pc' = "extract"
    /\ UNCHANGED <<corpus, expanded, ref_citations, expansion_history, expansion_log>>
    /\ UNCHANGED executor_vars

\* one iteration of "Extract references from each document"
ExtractDoc ==
    /\ pc = "extract"
    /\ doc_index <= Len(documents_to_process)
    /\ \E ok \in BOOLEAN :
        all_references' =
            all_references \o ExtractDocument(documents_to_process[doc_index], ok)
    /\ expansion_stats' = [expansion_stats EXCEPT !.documents_processed = @ + 1]
    /\ doc_index' = doc_index + 1
    /\ UNCHANGED <<corpus, expanded, ref_citations, expansion_history, expansion_log, pc,
                   runs, config, documents_to_process, unique_refs, index,
                   downloaded_count, call, row_base>>
    /\ UNCHANGED executor_vars

\* count the candidates, deduplicate, create the download directory
Dedup ==
    /\ pc = "extract"
    /\ doc_index > Len(documents_to_process)
    /\ LET d == Deduplicate(all_references)
       IN /\ unique_refs' = d.items
          /\ expansion_stats' = [expansion_stats EXCEPT
                                    !.references_found = Len(all_references),
                                    !.skipped_duplicates = @ + d.skipped]
    /\ index' = 1
    /\ downloaded_count' = 0
    /\ pc' = "download"
    /\ UNCHANGED <<corpus, expanded, ref_citations, expansion_history, expansion_log,
                   runs, config, documents_to_process, doc_index, all_references,
                   call, row_base>>
    /\ UNCHANGED executor_vars

\* a loop iteration up to the download: the budget test, the pending row, and
\* the end of the iteration for a reference with nothing to download
SavePending ==
    /\ pc = "download"
    /\ index <= Len(unique_refs)
    /\ ~BudgetExhausted(downloaded_count, config.max_downloads)
    /\ LET ref == unique_refs[index][2]
       IN /\ ref_citations' = InsertRow(ref_citations, Row(ref, "pending", None))
          /\ IF Downloadable(ref)
             THEN pc' = "attempt" /\ index' = index
             ELSE pc' = "download" /\ index' = index + 1
    /\ call' = NoCall
    /\ UNCHANGED <<corpus, expanded, expansion_history, expansion_log, runs, config,
                   documents_to_process, doc_index, all_references, unique_refs,
                   downloaded_count, expansion_stats, row_base>>
    /\ UNCHANGED executor_vars

\* what the collaborators can do in one download_reference call; the fields a
\* call does not read are fixed
EnvsFor(ref, exists) ==
    {e \in Envs :
        /\ (~NeedsResolve(ref) => e.resolved = None)
        /\ ((exists \/ (ref.url = None /\ e.resolved = None))
                => e.raise = "none" /\ e.rc = 0 /\ e.size = 0)
        /\ (e.raise = "spawn" => e.rc = 0 /\ e.size = 0)
        /\ (e.raise = "after" => e.rc = 0)
        /\ (e.rc # 0 => e.size \in {0, MinSize + 1})}

\* Conclude charging every attempt to the budget, failed ones included
ConcludeCharged(r, e, filename) ==
    /\ expanded' = r.files
    /\ unique_refs' = [unique_refs EXCEPT ![index][2] = r.reference]
    /\ call' = [made |-> TRUE, env |-> e, success |-> r.success, result |-> r.result,
                filename |-> filename,
                resolver_calls |-> r.resolver_calls, curl_calls |-> r.curl_calls,
                existed |-> (filename \in expanded),
                remains |-> (filename \in r.files)]
    /\ ref_citations' =
           InsertRow(ref_citations,
                     Row(r.reference, IF r.success THEN "downloaded" ELSE "failed", r.result))
    /\ downloaded_count' = downloaded_count + 1
    /\ expansion_stats' = CountOutcome(expansion_stats, r.success)

\* the end of an iteration whose download_reference call returned r
Conclude(r, e, filename) ==
    /\ expanded' = r.files
    /\ unique_refs' = [unique_refs EXCEPT ![index][2] = r.reference]
    /\ call' = [made |-> TRUE, env |-> e, success |-> r.success, result |-> r.result,
                filename |-> filename,
                resolver_calls |-> r.resolver_calls, curl_calls |-> r.curl_calls,
                existed |-> (filename \in expanded),
                remains |-> (filename \in r.files)]
    /\ ref_citations' =
           InsertRow(ref_citations,
                     Row(r.reference, IF r.success THEN "downloaded" ELSE "failed", r.result))
    /\ downloaded_count' = IF r.success THEN downloaded_count + 1 ELSE downloaded_count
    /\ expansion_stats' = CountOutcome(expansion_stats, r.success)

\* the rest of the iteration: download_reference, the terminal row, the counters
Attempt ==
    /\ pc = "attempt"
    /\ \E filename \in {Filename(unique_refs[index][2])} :
           \E e \in EnvsFor(unique_refs[index][2], filename \in expanded) :
               \E r \in {DownloadReference(unique_refs[index][2], expanded, e)} :
                   Conclude(r, e, filename)
    /\ index' = index + 1
    /\ pc' = "download"
    /\ UNCHANGED <<corpus, expansion_history, expansion_log, runs, config,
                   documents_to_process, doc_index, all_references, row_base>>
    /\ UNCHANGED executor_vars

\* HistoryRow with the number of candidates in the place of the downloads
HistoryRowFound(stats) ==
    [documents_processed |-> stats.documents_processed,
     references_found |-> stats.references_found,
     references_downloaded |-> stats.references_found,
     expansion_config |-> stats.expansion_config]

HistoryRow(stats) ==
    [documents_processed |-> stats.documents_processed,
     references_found |-> stats.references_found,
     references_downloaded |-> stats.references_downloaded,
     expansion_config |-> stats.expansion_config]

\* the loop ends (break on the budget, or no entry left); "Save expansion
\* history", "Save expansion log"
Finalize ==
    /\ pc = "download"
    /\ \/ index > Len(unique_refs)
       \/ BudgetExhausted(downloaded_count, config.max_downloads)
    /\ expansion_history' = InsertRow(expansion_history, HistoryRow(expansion_stats))
    /\ expansion_log' = WriteLog(expansion_stats)
    /\ pc' = "done"
    /\ call' = NoCall
    /\ UNCHANGED <<corpus, expanded, ref_citations, runs, config, documents_to_process,
                   doc_index, all_references, unique_refs, index, downloaded_count,
                   expansion_stats, row_base>>
    /\ UNCHANGED executor_vars

Next == StartRun \/ ExtractDoc \/ Dedup \/ SavePending \/ Attempt \/ Finalize

Spec == Init /\ [][Next]_vars

\* a call of expand_corpus runs on: each of its statements returns (the
\* resolver has a timeout, curl has --max-time), so a stage that can be taken
\* is taken
\* download_reference returns: the step of Attempt, as the loop sees it
Returns == pc = "attempt" /\ pc' = "download" /\ index' = index + 1

\* the first run on a corpus: nothing has been downloaded yet
InitFair == Init /\ expanded = {}

SpecFair ==
    /\ InitFair
    /\ [][Next]_vars
    /\ WF_vars(ExtractDoc)
    /\ WF_vars(Dedup)
    /\ WF_vars(SavePending)
    /\ WF_<<pc, index>>(Returns)
    /\ WF_vars(Finalize)

(***************************************************************************)
(* Several runs on one corpus: expand_corpus returns and is called again   *)
(* on the same ReferenceExpander, or on a new one, whose constructor finds *)
(* the tables of references.db in place.                                   *)
(***************************************************************************)
RerunCorpora == {{Doc("papers/r.txt", "arXiv:2301.12345", <<>>)}}

InitRerun ==
    /\ corpus \in RerunCorpora
    /\ expanded = {}
    /\ Fresh

\* "return expansion_stats": the locals of the call are gone
Return ==
    /\ pc = "done"
    /\ runs < MaxRuns
    /\ pc' = "idle"
    /\ documents_to_process' = <<>>
    /\ doc_index' = 1
    /\ all_references' = <<>>
    /\ unique_refs' = <<>>
    /\ index' = 1
    /\ downloaded_count' = 0
    /\ call' = NoCall
    /\ row_base' = Len(ref_citations)
    /\ UNCHANGED <<corpus, expanded, ref_citations, expansion_history, expansion_log,
                   runs, config, expansion_stats>>
    /\ UNCHANGED executor_vars

NextRerun ==
    StartRun \/ ExtractDoc \/ Dedup \/ SavePending \/ Attempt \/ Finalize \/ Return

SpecRerun == InitRerun /\ [][NextRerun]_vars

(***************************************************************************)
(* The scan and the extraction loop on one document whose text several     *)
(* passes match.                                                           *)
(***************************************************************************)
ExtractTexts ==
    {"https://doi.org/10.1000/xyz123",
     "arXiv:2310.12345v2",
     "[1] Lee (2020). Nets. arXiv:2301.12345",
     "Roe, K (2021). On 10.1000/abc9. [2] https://arxiv.org/abs/2301.12345"}

ExtractCorpora ==
    {{Doc("papers/x.txt", t, <<>>)} : t \in ExtractTexts}
        \cup {{Doc("papers/y.pdf", "", <<t, "https://example.org/z">>)} : t \in ExtractTexts}

InitExtract ==
    /\ corpus \in ExtractCorpora
    /\ expanded = {}
    /\ Fresh

NextExtract == StartRun \/ ExtractDoc \/ Dedup

SpecExtract == InitExtract /\ [][NextExtract]_vars

(***************************************************************************)
(* download_reference on a reference of any shape: one iteration of the    *)
(* download loop, entered after the 'pending' row of the reference.        *)
(***************************************************************************)
CallUrls ==
    {None, "https://arxiv.org/pdf/2301.12345.pdf", "https://arxiv.org/abs/2301.12345?v=2",
     "https://doi.org/", "https://arxiv.org"}

CallReferences ==
    {r \in {Reference("a citation", url, doi, arxiv_id, None, None, None, "papers/a.txt") :
                url \in CallUrls, doi \in {None, "10.1000/xyz123"},
                arxiv_id \in {None, "2301.12345"}} :
        Downloadable(r)}

InitCall ==
    /\ corpus = {}
    /\ expanded \in InitialFiles
    /\ \E ref \in CallReferences :
           /\ all_references = <<ref>>
           /\ unique_refs = <<<<DedupKey(ref), ref>>>>
           /\ ref_citations = <<Row(ref, "pending", None)>>
    /\ expansion_history = <<>>
    /\ expansion_log = <<>>
    /\ pc = "attempt"
    /\ runs = 1
    /\ config = [max_downloads |-> 1, target_sections |-> NoSections,
                 file_types |-> DefaultFileTypes]
    /\ documents_to_process = <<>>
    /\ doc_index = 1
    /\ index = 1
    /\ downloaded_count = 0
    /\ expansion_stats = [Stats0(config) EXCEPT !.references_found = 1]
    /\ call = NoCall
    /\ row_base = 0
    /\ NoExecutor

NextCall == Attempt \/ Finalize

SpecCall == InitCall /\ [][NextCall]_vars

(***************************************************************************)
(* CorpusExpansionExecutor (execute_expansion_plan.py): the phases of an    *)
(* expansion plan, each running reference_expander.py on its sections as a *)
(* subprocess.                                                             *)
(***************************************************************************)
MaxPhases == 2

\* the entries of plan["expansion_plan"]: phase name and phase configuration;
\* one configuration lacks "download_limit", one names no section
PhasePool ==
    { <<"phase_1_core",
        [priority |-> "high", download_limit |-> 2, target_sections |-> <<"papers">>]>>,
      <<"phase_2_methods",
        [priority |-> "medium", download_limit |-> 1,
         target_sections |-> <<"papers", "notes">>]>>,
      <<"phase_3_draft", [priority |-> "low", target_sections |-> <<"notes">>]>>,
      <<"phase_4_archive",
        [priority |-> "low", download_limit |-> 1, target_sections |-> <<>>]>> }

\* plan["success_criteria"], with and without "maximum_failures"
SuccessCriteria ==
    { [minimum_new_papers |-> 1, maximum_failures |-> 0],
      [minimum_new_papers |-> 1, maximum_failures |-> 1],
      [minimum_new_papers |-> 1] }

\* a JSON object has each key once, in the order of the file
Plans ==
    {[expansion_plan |-> q, success_criteria |-> c] :
        q \in UNION {{r \in [1..n -> PhasePool] :
                         \A a, b \in 1..n : a # b => r[a][1] # r[b][1]} : n \in 0..MaxPhases},
        c \in SuccessCriteria}

\* what happens to one section of a phase: the directory is missing, or the
\* subprocess exits 0 (with the number parsed from its output), exits with
\* another code, runs into the timeout, or another exception is raised
SectionOutcomes ==
    { [kind |-> "missing", downloads |-> 0],
      [kind |-> "success", downloads |-> 0],
      [kind |-> "success", downloads |-> 2],
      [kind |-> "failed", downloads |-> 0],
      [kind |-> "timeout", downloads |-> 0],
      [kind |-> "error", downloads |-> 0] }

PhaseResults0(phase_name) ==
    [phase |-> phase_name, sections_processed |-> <<>>, downloads |-> 0, failures |-> 0,
     success |-> FALSE]

\* one iteration of "Process each target section"
ProcessSection(results, section, o) ==
    IF o.kind = "missing" THEN results
    ELSE IF o.kind = "success"
    THEN [results EXCEPT
              !.downloads = @ + o.downloads,
              !.sections_processed =
                  Append(@, [section |-> section, downloads |-> o.downloads,
                             status |-> "success"])]
    ELSE [results EXCEPT
              !.failures = @ + 1,
              !.sections_processed =
                  Append(@, [section |-> section, error |-> o.kind, status |-> o.kind])]

RECURSIVE ProcessSections(_, _, _, _)
ProcessSections(results, sections, outcomes, i) ==
    IF i > Len(sections) THEN results
    ELSE ProcessSections(ProcessSection(results, sections[i], outcomes[i]),
                         sections, outcomes, i + 1)

PhaseKeys == {"priority", "download_limit", "target_sections"}

\* execute_phase: the phase's results, or the KeyError of a configuration
\* that lacks a key
ExecutePhase(phase_name, phase_config, outcomes) ==
    IF ~(PhaseKeys \subseteq DOMAIN phase_config)
    THEN [raised |-> TRUE]
    ELSE [raised |-> FALSE,
          result |->
              CHOOSE r \in {[x EXCEPT !.success = x.downloads > 0] :
                                x \in {ProcessSections(PhaseResults0(phase_name),
                                                       phase_config.target_sections,
                                                       outcomes, 1)}} : TRUE]

OutcomesFor(phase_config) ==
    IF PhaseKeys \subseteq DOMAIN phase_config
    THEN [1..Len(phase_config.target_sections) -> SectionOutcomes]
    ELSE {<<>>}

\* StopAfter never asking for the stop
StopNever(total_failures, maximum_failures) == FALSE

\* "Check if we should continue"
StopAfter(total_failures, maximum_failures) == total_failures > maximum_failures

\* _check_success_criteria; the plans here give no completion_time_minutes
CheckSuccessCriteria(log, criteria) ==
    [minimum_new_papers |-> log.total_downloads >= criteria.minimum_new_papers,
     maximum_failures |-> log.total_failures <= criteria.maximum_failures,
     completion_time |-> TRUE,
     overall_success |-> /\ log.total_downloads >= criteria.minimum_new_papers
                         /\ log.total_failures <= criteria.maximum_failures]

\* the state after CorpusExpansionExecutor(plan_file, corpus_base)
InitPlan ==
    /\ corpus = {}
    /\ expanded = {}
    /\ NoRun
    /\ plan \in Plans
    /\ local_model \in BOOLEAN
    /\ execution_log = ExecutionLog0
    /\ phase_results = <<>>
    /\ phase_index = 1
    /\ phase_calls = <<>>
    /\ plan_pc = "ready"
    /\ final_results = NotReturned

\* "Verify local model"
CheckModel ==
    /\ plan_pc = "ready"
    /\ IF local_model
       THEN plan_pc' = "phases" /\ final_results' = final_results
       ELSE /\ plan_pc' = "returned"
            /\ final_results' = [returned |-> TRUE, error |-> "Local model not available"]
    /\ UNCHANGED <<plan, local_model, execution_log, phase_results, phase_index,
                   phase_calls>>
    /\ UNCHANGED expander_vars

\* the log after a phase returned result
Completed(log, phase_name, result) ==
    [log EXCEPT !.phases_completed = Append(@, phase_name),
                !.total_downloads = @ + result.downloads,
                !.total_failures = @ + result.failures]

\* one iteration of "Execute phases in order"
RunPhase ==
    /\ plan_pc = "phases"
    /\ phase_index <= Len(plan.expansion_plan)
    /\ phase_calls' = Append(phase_calls, plan.expansion_plan[phase_index][1])
    /\ \E outcomes \in OutcomesFor(plan.expansion_plan[phase_index][2]) :
         \E r \in {ExecutePhase(plan.expansion_plan[phase_index][1],
                                plan.expansion_plan[phase_index][2], outcomes)} :
           IF r.raised
           THEN /\ execution_log' =
                       [execution_log EXCEPT
                            !.errors = Append(@, plan.expansion_plan[phase_index][1])]
                /\ phase_results' = phase_results
                /\ phase_index' = phase_index + 1
                /\ plan_pc' = "phases"
           ELSE /\ phase_results' = Append(phase_results, r.result)
                /\ \E log \in {Completed(execution_log,
                                          plan.expansion_plan[phase_index][1], r.result)} :
                       IF "maximum_failures" \notin DOMAIN plan.success_criteria
                       THEN /\ execution_log' =
                                   [log EXCEPT
                                        !.errors =
                                            Append(@, plan.expansion_plan[phase_index][1])]
                            /\ phase_index' = phase_index + 1
                            /\ plan_pc' = "phases"
                       ELSE /\ execution_log' = log
                            /\ IF StopAfter(log.total_failures,
                                            plan.success_criteria.maximum_failures)
                               THEN phase_index' = phase_index /\ plan_pc' = "final"
                               ELSE phase_index' = phase_index + 1 /\ plan_pc' = "phases"
    /\ UNCHANGED <<plan, local_model, final_results>>
    /\ UNCHANGED expander_vars

\* "Final results": the loop is over or was left by the break
FinalResults ==
    /\ \/ plan_pc = "final"
       \/ plan_pc = "phases" /\ phase_index > Len(plan.expansion_plan)
    /\ IF "maximum_failures" \in DOMAIN plan.success_criteria
       THEN /\ plan_pc' = "returned"
            /\ final_results' =
                   [returned |-> TRUE,
                    execution_summary |-> execution_log,
                    phase_results |-> phase_results,
                    success_criteria_met |->
                        CheckSuccessCriteria(execution_log, plan.success_criteria)]
       ELSE /\ plan_pc' = "raised"
            /\ final_results' = final_results
    /\ UNCHANGED <<plan, local_model, execution_log, phase_results, phase_index,
                   phase_calls>>
    /\ UNCHANGED expander_vars

NextPlan == CheckModel \/ RunPhase \/ FinalResults

SpecPlan == InitPlan /\ [][NextPlan]_vars

(***************************************************************************)
(* Properties.                                                             *)
(***************************************************************************)
\* the rows the current run has written
RunRows == SubSeq(ref_citations, row_base + 1, Len(ref_citations))

RowsWith(rows, status) == {j \in 1..Len(rows) : rows[j].download_status = status}

InRun == pc \in {"extract", "download", "attempt", "done"}

\* C1: in a run with max_downloads = k, the rows that record 'downloaded' and
\* the references_downloaded counter never exceed k.
C1_BudgetNeverExceeded ==
    InRun =>
        /\ Cardinality(RowsWith(RunRows, "downloaded")) <= config.max_downloads
        /\ expansion_stats.references_downloaded <= config.max_downloads
        /\ downloaded_count <= config.max_downloads

\* a run that used up a budget of at least one while a downloadable candidate
\* was still waiting
C1_Witness ==
    /\ pc = "done"
    /\ config.max_downloads >= 1
    /\ Cardinality(RowsWith(RunRows, "downloaded")) = config.max_downloads
    /\ \E j \in index..Len(unique_refs) : Downloadable(unique_refs[j][2])

\* the identity key as the specification words it: the citation, when it is
\* the key, is case-folded and its whitespace normalized
RECURSIVE CollapseSpaces(_, _)
CollapseSpaces(s, after_space) ==
    IF s = "" THEN ""
    ELSE IF IsSpace(Char(s, 1))
    THEN (IF after_space THEN "" ELSE " ") \o CollapseSpaces(SubSeq(s, 2, Len(s)), TRUE)
    ELSE Char(s, 1) \o CollapseSpaces(SubSeq(s, 2, Len(s)), FALSE)

StripEnd(s) == IF s # "" /\ Char(s, Len(s)) = " " THEN SubSeq(s, 1, Len(s) - 1) ELSE s

NormalizeCitation(s) == StripEnd(CollapseSpaces(Lower(s), TRUE))

IdentityKey(ref) ==
    IF ref.doi # None THEN ref.doi
    ELSE IF ref.arxiv_id # None THEN ref.arxiv_id
    ELSE IF ref.url # None THEN ref.url
    ELSE NormalizeCitation(ref.citation)

\* deduplication has just finished
Deduplicated == pc = "download" /\ index = 1 /\ Len(ref_citations) = row_base

\* position of the first candidate with the identity key of r
FirstWithKey(cands, r) ==
    CHOOSE i \in 1..Len(cands) :
        /\ IdentityKey(cands[i]) = IdentityKey(r)
        /\ \A h \in 1..(i - 1) : IdentityKey(cands[h]) # IdentityKey(r)

\* C2: deduplication keeps exactly one reference per distinct identity key, the
\* kept one is the first candidate with that key, and the survivors stand in
\* the order in which their keys were first seen.
C2_OnePerIdentityKey ==
    Deduplicated =>
        /\ \A i \in 1..Len(all_references) :
               Cardinality({j \in 1..Len(unique_refs) :
                   IdentityKey(unique_refs[j][2]) = IdentityKey(all_references[i])}) = 1
        /\ \A j \in 1..Len(unique_refs) :
               /\ \E i \in 1..Len(all_references) : all_references[i] = unique_refs[j][2]
               /\ unique_refs[j][2] =
                      all_references[FirstWithKey(all_references, unique_refs[j][2])]
        /\ \A j, k \in 1..Len(unique_refs) :
               j < k => FirstWithKey(all_references, unique_refs[j][2])
                            < FirstWithKey(all_references, unique_refs[k][2])

\* exactly two candidates share a key, and that key is a DOI
OneDoiPair(cands) ==
    \E i, j \in 1..Len(cands) :
        /\ i < j
        /\ cands[i].doi # None
        /\ cands[i].doi = cands[j].doi
        /\ \A a, b \in 1..Len(cands) :
               (a < b /\ <<a, b>> # <<i, j>>) => DedupKey(cands[a]) # DedupKey(cands[b])

\* C3: once the candidates are deduplicated, and in the log the run ends with,
\* skipped_duplicates is references_found (the number of candidates) minus the
\* number of survivors; two candidates with the same DOI make it exactly 1.
C3_SkippedDuplicates ==
    (pc \in {"download", "attempt", "done"}) =>
        /\ expansion_stats.references_found = Len(all_references)
        /\ expansion_stats.skipped_duplicates =
               expansion_stats.references_found - Len(unique_refs)
        /\ (OneDoiPair(all_references) => expansion_stats.skipped_duplicates = 1)
        /\ (pc = "done" => expansion_log = <<expansion_stats>>)

\* a finished run whose candidates held one DOI twice
C3_Witness ==
    /\ pc = "done"
    /\ OneDoiPair(all_references)
    /\ expansion_log[1].skipped_duplicates = 1

CitationOnly(ref) == ref.doi = None /\ ref.arxiv_id = None /\ ref.url = None

\* C4: the deduplication key is the identity key: two candidates share the one
\* exactly when they share the other, so candidates without doi, arxiv_id and
\* url whose citations differ only in case or whitespace leave one survivor.
C4_KeyIsIdentityKey ==
    Deduplicated =>
        /\ \A a, b \in 1..Len(all_references) :
               (DedupKey(all_references[a]) = DedupKey(all_references[b]))
                   <=> (IdentityKey(all_references[a]) = IdentityKey(all_references[b]))
        /\ \A a \in 1..Len(all_references) :
               CitationOnly(all_references[a]) =>
                   Cardinality({j \in 1..Len(unique_refs) :
                       /\ CitationOnly(unique_refs[j][2])
                       /\ NormalizeCitation(unique_refs[j][2].citation)
                              = NormalizeCitation(all_references[a].citation)}) = 1

\* the status the rows record for the candidate with this key: that of its
\* latest row
StatusIn(rows, key) ==
    LET js == {j \in 1..Len(rows) : DedupKey(rows[j]) = key}
    IN IF js = {} THEN "absent"
       ELSE rows[CHOOSE j \in js : \A h \in js : h <= j].download_status

RowsSince(rows, base) == SubSeq(rows, base + 1, Len(rows))

\* C5: within a run the recorded status of a survivor starts at 'pending' and
\* changes at most once more, to 'downloaded' or to 'failed'.
C5_StatusTransitions ==
    [][runs' = runs =>
          \A j \in 1..Len(unique_refs) :
              LET before == StatusIn(RowsSince(ref_citations, row_base), unique_refs[j][1])
                  after == StatusIn(RowsSince(ref_citations', row_base'), unique_refs[j][1])
              IN before # after =>
                     \/ before = "absent" /\ after = "pending"
                     \/ before = "pending" /\ after \in {"downloaded", "failed"}]_vars

\* a run in which one survivor went to 'downloaded' and another to 'failed'
C5_Witness ==
    /\ pc = "done"
    /\ \E j, k \in 1..Len(unique_refs) :
           /\ StatusIn(RunRows, unique_refs[j][1]) = "downloaded"
           /\ StatusIn(RunRows, unique_refs[k][1]) = "failed"

\* C6: when a run ends every survivor has a row, and a survivor the exhausted
\* budget kept from being attempted has the status 'pending'.
C6_EverySurvivorRecorded ==
    pc = "done" =>
        \A j \in 1..Len(unique_refs) :
            /\ StatusIn(RunRows, unique_refs[j][1]) # "absent"
            /\ (j >= index => StatusIn(RunRows, unique_refs[j][1]) = "pending")

\* C7: a call that finds the file of the derived name in the target directory
\* reports success with its path and calls neither the resolver nor curl.
C7_ExistingFileNoNetwork ==
    (call.made /\ call.existed) =>
        /\ call.success
        /\ call.result = TargetPath(call.filename)
        /\ call.resolver_calls = 0
        /\ call.curl_calls = 0

LastRow == ref_citations[Len(ref_citations)]

\* C8: a fetch curl completes with return code 0 that leaves a file of at most
\* MinSize bytes makes the call fail, the file is removed and the row says
\* 'failed'; a fresh fetch succeeds only with return code 0 and a larger file.
C8_UndersizedFetchFails ==
    (call.made /\ call.curl_calls = 1) =>
        /\ (call.env.rc = 0 /\ call.env.size > 0 /\ call.env.size <= MinSize) =>
               /\ ~call.success
               /\ ~call.remains
               /\ LastRow.download_status = "failed"
        /\ call.success => (call.env.rc = 0 /\ call.env.size > MinSize)

\* C9: after a call that started a fetch the file of the derived name is in
\* the target directory exactly when the call reported success.
C9_NoFileAfterFailure ==
    (call.made /\ call.curl_calls = 1) => (call.remains <=> call.success)

\* C10: a row carries a download_path only with the status 'downloaded'.
C10_PathOnlyWhenDownloaded ==
    \A j \in 1..Len(ref_citations) :
        ref_citations[j].download_path # None
            => ref_citations[j].download_status = "downloaded"

\* the rows of the current run that belong to the candidate with this key
RowsOf(rows, key) == {i \in 1..Len(rows) : DedupKey(rows[i]) = key}

\* C11: recording the terminal status adds no row: a run leaves one row for
\* every candidate it recorded.
C11_OneRowPerCandidate ==
    InRun => \A j \in 1..Len(unique_refs) :
                 Cardinality(RowsOf(RunRows, unique_refs[j][1])) <= 1

IsPrefix(a, b) == Len(a) <= Len(b) /\ SubSeq(b, 1, Len(a)) = a

\* C12: no step of the engine changes or removes a row of ref_citations or of
\* expansion_history: each table only grows at its end, over any number of
\* runs, so a reference attempted again gets new rows beside its old ones.
C12_RowsNeverOverwritten ==
    [][/\ IsPrefix(ref_citations, ref_citations')
       /\ IsPrefix(expansion_history, expansion_history')]_vars

\* a second run has attempted a reference the first run attempted: both
\* attempts have their rows, and both runs their history row
C12_Witness ==
    /\ runs = 2
    /\ pc = "done"
    /\ Len(expansion_history) = 2
    /\ \E i \in 1..row_base : \E j \in (row_base + 1)..Len(ref_citations) :
           /\ DedupKey(ref_citations[i]) = DedupKey(ref_citations[j])
           /\ ref_citations[i].download_status = "failed"
           /\ ref_citations[j].download_status = "downloaded"

\* C13: every call of expand_corpus inserts one expansion_history row, when
\* the download loop is over and nothing is recorded for the run any more; the
\* row carries the counters of the returned statistics and never changes.
C13_OneHistoryRowPerRun ==
    /\ [](/\ Len(expansion_history) = (IF pc \in {"idle", "done"} THEN runs ELSE runs - 1)
          /\ (pc = "done" =>
                 /\ expansion_history[runs].documents_processed
                        = expansion_stats.documents_processed
                 /\ expansion_history[runs].references_found
                        = expansion_stats.references_found
                 /\ expansion_history[runs].references_downloaded
                        = expansion_stats.references_downloaded))
    /\ [][/\ IsPrefix(expansion_history, expansion_history')
          /\ (expansion_history' # expansion_history =>
                 /\ pc = "download" /\ pc' = "done"
                 /\ Len(expansion_history') = Len(expansion_history) + 1)
          /\ (pc = "done" /\ pc' = "done" =>
                 ref_citations' = ref_citations /\ expansion_stats' = expansion_stats)]_vars

\* two runs are over, the second one with a download, and each left its row
C13_Witness ==
    /\ runs = 2
    /\ pc = "done"
    /\ Len(expansion_history) = 2
    /\ expansion_history[2].references_downloaded = 1
    /\ expansion_history[1].references_downloaded = 0
    /\ expansion_history[1].references_found = 1

\* the reference of the call the loop has just made
Called == unique_refs[index - 1][2]

\* t is s with every "/" turned into "_"
Underscored(s, t) ==
    /\ Len(t) = Len(s)
    /\ \A i \in 1..Len(s) :
           Char(t, i) = (IF Char(s, i) = "/" THEN "_" ELSE Char(s, i))

EndsWith(s, tail) ==
    Len(s) >= Len(tail) /\ SubSeq(s, Len(s) - Len(tail) + 1, Len(s)) = tail

Stem(name) == SubSeq(name, 1, Len(name) - 4)

\* C14: the file name of a call that got as far as naming the file is the
\* arxiv_id with ".pdf" when there is an arxiv_id; else the doi, "/" turned
\* into "_", with ".pdf" when there is a doi; else the last segment of the
\* URL's path, and "document.pdf" when that segment is empty.
C14_FilenameDerivation ==
    (call.made /\ Called.url # None) =>
        /\ Called.arxiv_id # None => call.filename = Called.arxiv_id \o ".pdf"
        /\ (Called.arxiv_id = None /\ Called.doi # None) =>
               /\ EndsWith(call.filename, ".pdf")
               /\ Underscored(Called.doi, Stem(call.filename))
        /\ (Called.arxiv_id = None /\ Called.doi = None) =>
               /\ Find(call.filename, "/") = 0
               /\ call.filename # ""
               /\ IF EndsWith(UrlPath(Called.url), "/") \/ UrlPath(Called.url) = ""
                  THEN call.filename = "document.pdf"
                  ELSE EndsWith("/" \o UrlPath(Called.url), "/" \o call.filename)
        /\ Called.arxiv_id = "2301.12345" => call.filename = "2301.12345.pdf"
        /\ (Called.arxiv_id = None /\ Called.doi = "10.1000/xyz123") =>
               call.filename = "10.1000_xyz123.pdf"

\* a call for a reference that has a doi and no arxiv_id has named its file;
\* so has a call whose URL path ends without a segment
C14_Witness ==
    /\ call.made
    /\ Called.url # None
    /\ Called.arxiv_id = None
    /\ \/ Called.doi = "10.1000/xyz123" /\ call.filename = "10.1000_xyz123.pdf"
       \/ Called.doi = None /\ call.filename = "document.pdf"

\* the characters of the paths, in code point order
PathChars ==
    <<"-", ".", "/", "0", "1", "2", "3", "4", "5", "6", "7", "8", "9",
      "A", "B", "C", "D", "E", "F", "G", "H", "I", "J", "K", "L", "M",
      "N", "O", "P", "Q", "R", "S", "T", "U", "V", "W", "X", "Y", "Z",
      "_", "a", "b", "c", "d", "e", "f", "g", "h", "i", "j", "k", "l",
      "m", "n", "o", "p", "q", "r", "s", "t", "u", "v", "w", "x", "y",
      "z">>

Ord(c) == CHOOSE k \in 1..Len(PathChars) : PathChars[k] = c

\* a sorts before b or equals it, character by character
RECURSIVE StrLeq(_, _, _)
StrLeq(a, b, i) ==
    IF i > Len(a) THEN TRUE
    ELSE IF i > Len(b) THEN FALSE
    ELSE IF Char(a, i) = Char(b, i) THEN StrLeq(a, b, i + 1)
    ELSE Ord(Char(a, i)) < Ord(Char(b, i))

\* C15: the documents a run scans and extracts from stand in the order of
\* their paths, whatever order the directories were enumerated in.
C15_ScanSorted ==
    InRun => \A i, j \in 1..Len(documents_to_process) :
                 i < j => StrLeq(documents_to_process[i].path,
                                 documents_to_process[j].path, 1)

Hidden(section) == Char(section, 1) = "."

\* the documents of the corpus with a suffix the run accepts
Eligible == {d \in corpus : InSeq(Lower(Suffix(d.path)), config.file_types)}

Scanned == {documents_to_process[i] : i \in 1..Len(documents_to_process)}

\* C16: with a target_sections list the run scans only documents below the
\* immediate child directories the list names; without one it scans the
\* documents below every immediate child directory that is not hidden.
C16_SectionFilter ==
    InRun =>
        /\ \A d \in Scanned : Section(d.path) # ""
        /\ config.target_sections.given =>
               \A d \in Scanned : InSeq(Section(d.path), config.target_sections.names)
        /\ ~config.target_sections.given =>
               /\ \A d \in Scanned : ~Hidden(Section(d.path))
               /\ \A d \in Eligible :
                      (Section(d.path) # "" /\ ~Hidden(Section(d.path))) => d \in Scanned

\* C17: an iteration of the extraction loop adds the references of its
\* document, or nothing when reading the document fails, and goes on to the
\* next document; the loop is left only when every document had its turn.
C17_ExtractionFailureIsolated ==
    /\ [][(pc = "extract" /\ doc_index' # doc_index /\ runs' = runs) =>
             /\ doc_index' = doc_index + 1
             /\ pc' = "extract"
             /\ \/ all_references' = all_references
                \/ all_references' = all_references
                       \o ExtractDocument(documents_to_process[doc_index], TRUE)
             /\ expansion_stats'.documents_processed
                    = expansion_stats.documents_processed + 1]_vars
    /\ [](pc \in {"download", "attempt", "done"} =>
             /\ doc_index = Len(documents_to_process) + 1
             /\ expansion_stats.documents_processed = Len(documents_to_process))

\* the first of two documents that both hold references could not be read:
\* the run holds exactly the references of the second
C17_Witness ==
    /\ pc = "done"
    /\ Len(documents_to_process) = 2
    /\ ExtractDocument(documents_to_process[1], TRUE) # <<>>
    /\ ExtractDocument(documents_to_process[2], TRUE) # <<>>
    /\ all_references = ExtractDocument(documents_to_process[2], TRUE)
    /\ expansion_stats.documents_processed = 2

\* C18: a download_reference call that fails is recorded 'failed', adds one to
\* failed_downloads and nothing to the downloads, and the loop goes on with
\* the next survivor; the loop ends only at the last survivor or on the budget.
C18_DownloadErrorIsolated ==
    /\ [][(pc = "attempt" /\ pc' # "attempt" /\ ~call'.success) =>
             /\ ref_citations'[Len(ref_citations')].download_status = "failed"
             /\ Len(ref_citations') = Len(ref_citations) + 1
             /\ expansion_stats'.failed_downloads = expansion_stats.failed_downloads + 1
             /\ expansion_stats'.references_downloaded
                    = expansion_stats.references_downloaded
             /\ downloaded_count' = downloaded_count
             /\ pc' = "download"
             /\ index' = index + 1]_vars
    /\ [](pc = "done" =>
             \/ index = Len(unique_refs) + 1
             \/ BudgetExhausted(downloaded_count, config.max_downloads))

\* a run is over in which a fetch failed (bad status, undersized file or an
\* exception) and a later survivor was downloaded
C18_Witness ==
    /\ pc = "done"
    /\ expansion_stats.failed_downloads = 1
    /\ \E i, j \in 1..Len(RunRows) :
           /\ i < j
           /\ RunRows[i].download_status = "failed"
           /\ RunRows[i].download_path # "No downloadable URL available"
           /\ RunRows[j].download_status = "downloaded"
           /\ DedupKey(RunRows[i]) # DedupKey(RunRows[j])

\* C19: when the resolver finds no URL for a reference with a doi and no url,
\* curl is not called for it, the reference is recorded 'failed' without a
\* URL, no file appears, and the loop goes on with the next survivor.
C19_ResolutionFailure ==
    /\ [](( /\ call.made
            /\ call.resolver_calls = 1
            /\ call.env.resolved = None ) =>
               /\ Called.doi # None
               /\ Called.url = None
               /\ call.curl_calls = 0
               /\ ~call.success
               /\ LastRow.download_status = "failed"
               /\ LastRow.doi = Called.doi
               /\ LastRow.url = None)
    /\ [][( /\ pc = "attempt"
            /\ pc' # "attempt"
            /\ call'.resolver_calls = 1
            /\ call'.env.resolved = None ) =>
               /\ expanded' = expanded
               /\ pc' = "download"
               /\ index' = index + 1
               /\ downloaded_count' = downloaded_count]_vars

\* a run is over in which the DOI of one survivor did not resolve and a later
\* survivor was downloaded
C19_Witness ==
    /\ pc = "done"
    /\ \E i, j \in 1..Len(RunRows) :
           /\ i < j
           /\ RunRows[i].download_status = "failed"
           /\ RunRows[i].doi # None
           /\ RunRows[i].url = None
           /\ RunRows[j].download_status = "downloaded"
           /\ DedupKey(RunRows[i]) # DedupKey(RunRows[j])

\* the statistics count what the rows of the run record
HonestCounts(stats) ==
    /\ stats.references_found = Len(all_references)
    /\ stats.references_downloaded = Cardinality(RowsWith(RunRows, "downloaded"))
    /\ stats.failed_downloads = Cardinality(RowsWith(RunRows, "failed"))
    /\ stats.skipped_duplicates = Len(all_references) - Len(unique_refs)

\* the run is over and has left its summary: the returned statistics, the
\* history row and the JSON log
Summarised ==
    /\ pc = "done"
    /\ HonestCounts(expansion_stats)
    /\ expansion_log = <<expansion_stats>>
    /\ Len(expansion_history) = runs
    /\ expansion_history[runs] = HistoryRow(expansion_stats)

\* C20: a run that has started comes to its end and leaves its summary, with
\* the counts of what was found, downloaded, failed and skipped, whatever
\* fails on the way; and a run that is over has left it.
C20_RunCompletes ==
    /\ (pc = "extract") ~> Summarised
    /\ [](pc = "done" => Summarised)

\* a run is over in which two downloads were attempted and both failed
C20_Witness ==
    /\ Summarised
    /\ expansion_stats.references_downloaded = 0
    /\ expansion_stats.failed_downloads = 2
    /\ index = Len(unique_refs) + 1

Terminal == {"downloaded", "failed"}

PendingRows(rows, key) == {i \in RowsOf(rows, key) : rows[i].download_status = "pending"}

TerminalRows(rows, key) == {i \in RowsOf(rows, key) : rows[i].download_status \in Terminal}

\* survivor j has been through its download_reference call
Attempted(j) == j < index /\ Downloadable(unique_refs[j][2])

\* C21: the 'pending' row of an attempted candidate is written before its
\* download attempt starts; its terminal status is recorded exactly once, when
\* the attempt has resolved and before the 'pending' row of the next candidate.
C21_RecordOrder ==
    /\ [](InRun =>
             \A j \in 1..Len(unique_refs) :
                 /\ Cardinality(PendingRows(RunRows, unique_refs[j][1])) <= 1
                 /\ Cardinality(TerminalRows(RunRows, unique_refs[j][1])) <= 1
                 /\ Attempted(j) =>
                        Cardinality(TerminalRows(RunRows, unique_refs[j][1])) = 1
                 /\ \A t \in TerminalRows(RunRows, unique_refs[j][1]) :
                        /\ \E p \in PendingRows(RunRows, unique_refs[j][1]) : p < t
                        /\ \A k \in (j + 1)..Len(unique_refs) :
                               \A p \in PendingRows(RunRows, unique_refs[k][1]) : t < p)
    /\ [][(pc = "attempt" /\ pc' # "attempt") =>
             /\ ~call.made
             /\ LastRow.download_status = "pending"
             /\ DedupKey(LastRow) = unique_refs[index][1]
             /\ call'.made
             /\ Len(ref_citations') = Len(ref_citations) + 1
             /\ IsPrefix(ref_citations, ref_citations')
             /\ ref_citations'[Len(ref_citations')].download_status
                    = (IF call'.success THEN "downloaded" ELSE "failed")
             /\ DedupKey(ref_citations'[Len(ref_citations')]) = unique_refs[index][1]]_vars

\* a run is over that attempted two candidates: its rows are the first one's
\* 'pending' and terminal row, then the second one's
C21_Witness ==
    /\ pc = "done"
    /\ Len(RunRows) = 4
    /\ Attempted(1) /\ Attempted(2)
    /\ RunRows[1].download_status = "pending"
    /\ RunRows[2].download_status = "failed"
    /\ RunRows[3].download_status = "pending"
    /\ RunRows[4].download_status = "downloaded"
    /\ DedupKey(RunRows[1]) = DedupKey(RunRows[2])
    /\ DedupKey(RunRows[3]) = DedupKey(RunRows[4])
    /\ DedupKey(RunRows[1]) # DedupKey(RunRows[3])

\* the successful downloads of the run have reached max_downloads
BudgetReached == downloaded_count >= config.max_downloads

\* C22: a candidate is dispatched only while the successful downloads are
\* below max_downloads; once they have reached it the run makes no resolver or
\* fetch call and writes no row any more: its next step writes the history row
\* and the JSON log, and that step comes.
C22_BudgetStopsDispatch ==
    /\ [][(pc # "attempt" /\ pc' = "attempt") => ~BudgetReached]_vars
    /\ [][(call'.made /\ call' # call) => ~BudgetReached]_vars
    /\ [][(pc = "download" /\ BudgetReached) =>
             /\ pc' = "done"
             /\ ~call'.made
             /\ ref_citations' = ref_citations
             /\ expanded' = expanded
             /\ expansion_history' = Append(expansion_history, HistoryRow(expansion_stats))
             /\ expansion_log' = <<expansion_stats>>]_vars
    /\ (pc = "download" /\ BudgetReached) ~> (pc = "done")

\* a run with a budget of one ended after its first download, the second
\* survivor never dispatched
C22_Witness ==
    /\ pc = "done"
    /\ config.max_downloads = 1
    /\ downloaded_count = 1
    /\ index = 2
    /\ Len(unique_refs) >= 2
    /\ Downloadable(unique_refs[2][2])
    /\ Len(RunRows) = 2
    /\ expansion_log = <<expansion_stats>>

\* the text _extract_references_from_text gets for a document
TextOf(d) == IF Lower(Suffix(d.path)) = ".pdf" THEN PdfText(d.pages) ELSE d.text

\* the pass a reference comes from, by the fields the pass fills in: 1 DOI,
\* 2 arXiv, 3 URL, 4 structured citation
PassOf(ref) ==
    IF ref.doi # None THEN 1
    ELSE IF ref.arxiv_id # None THEN 2
    ELSE IF ref.url # None THEN 3
    ELSE 4

FromPass(refs, p) == {i \in 1..Len(refs) : PassOf(refs[i]) = p}

ScholarlyOf(urls) == {i \in 1..Len(urls) : IsScholarly(urls[i])}

\* the list an extraction step adds for one document keeps the pass order and
\* holds every match of every pass
PassesComplete(added, text) ==
    /\ \A i, j \in 1..Len(added) : i < j => PassOf(added[i]) <= PassOf(added[j])
    /\ Cardinality(FromPass(added, 1)) = Len(DoiFindall(text, 1))
    /\ Cardinality(FromPass(added, 2)) = Len(ArxivFindall(text, 1))
    /\ Cardinality(FromPass(added, 3)) = Cardinality(ScholarlyOf(UrlFindall(text, 1)))
    /\ Cardinality(FromPass(added, 4))
           = Len(IeeeFindall(text, 1)) + Len(ApaFindall(text, 1))
    /\ text = "https://doi.org/10.1000/xyz123" =>
           /\ Len(added) = 2
           /\ added[1].doi = "10.1000/xyz123" /\ added[1].url = None
           /\ added[2].url = text /\ added[2].doi = None
    /\ text = "arXiv:2310.12345v2" =>
           /\ Len(added) = 2
           /\ added[1].doi = "10.12345v2"
           /\ added[2].arxiv_id = "2310.12345"

\* C23: the references one document adds stand in pass order, DOI, arXiv,
\* scholarly URL, structured citation, and every pass adds all its matches
\* whatever the other passes matched, so one piece of text can give a
\* reference in several passes.
C23_PassOrder ==
    [][(pc = "extract" /\ doc_index' = doc_index + 1) =>
          \E added \in {SubSeq(all_references', Len(all_references) + 1,
                               Len(all_references'))} :
              \/ added = <<>>
              \/ PassesComplete(added, TextOf(documents_to_process[doc_index]))]_vars

\* the URL https://doi.org/10.1000/xyz123 gave a DOI reference and then a URL
\* reference
C23_Witness ==
    /\ pc = "extract"
    /\ doc_index = 2
    /\ TextOf(documents_to_process[1]) = "https://doi.org/10.1000/xyz123"
    /\ Len(all_references) = 2
    /\ PassOf(all_references[1]) = 1
    /\ PassOf(all_references[2]) = 3
    /\ all_references[2].url = "https://doi.org/" \o all_references[1].doi

\* the identity keys of the candidates of the run
IdentityKeys == {IdentityKey(all_references[i]) : i \in 1..Len(all_references)}

\* C24: when a run is over, references_downloaded is the number of
\* 'downloaded' rows the run wrote and failed_downloads the number of its
\* 'failed' rows, every terminal row comes after a 'pending' row of the same
\* candidate, and the two counters together do not exceed the number of
\* survivors.
C24_CountsMatchRows ==
    pc = "done" =>
        /\ expansion_stats.references_downloaded
               = Cardinality(RowsWith(RunRows, "downloaded"))
        /\ expansion_stats.failed_downloads = Cardinality(RowsWith(RunRows, "failed"))
        /\ expansion_log = <<expansion_stats>>
        /\ \A t \in 1..Len(RunRows) :
               RunRows[t].download_status \in Terminal =>
                   \E p \in 1..(t - 1) :
                       /\ RunRows[p].download_status = "pending"
                       /\ DedupKey(RunRows[p]) = DedupKey(RunRows[t])
        /\ expansion_stats.references_downloaded + expansion_stats.failed_downloads
               <= Len(unique_refs)
        /\ expansion_stats.references_downloaded + expansion_stats.failed_downloads
               <= Cardinality(IdentityKeys)

\* a run is over that downloaded one survivor, failed on another and left
\* others unattempted
C24_Witness ==
    /\ pc = "done"
    /\ index = Len(unique_refs) + 1
    /\ Len(unique_refs) > 2
    /\ expansion_stats.references_downloaded = 1
    /\ expansion_stats.failed_downloads = 1
    /\ Cardinality(RowsWith(RunRows, "pending")) = Len(unique_refs)

\* C25 as stated: failed attempts leave the budget counter alone, and a run
\* with max_downloads >= 1 in which every attempt failed has attempted every
\* survivor (checked for runs that made an attempt).
C25_EverySurvivorAttempted ==
    /\ InRun => downloaded_count = Cardinality(RowsWith(RunRows, "downloaded"))
    /\ (pc = "done" /\ config.max_downloads >= 1
            /\ expansion_stats.failed_downloads >= 1
            /\ expansion_stats.references_downloaded = 0) =>
           \A j \in 1..Len(unique_refs) :
               TerminalRows(RunRows, unique_refs[j][1]) # {}

\* C25, amended: failed attempts leave the budget counter alone: it counts the
\* 'downloaded' rows of the run.  A run with max_downloads >= 1 in which every
\* attempt failed has visited every survivor, recorded each 'pending' and
\* attempted each one that has a url, a doi or an arxiv_id; its attempts can
\* outnumber max_downloads.
C25_FailuresKeepBudget ==
    /\ InRun => downloaded_count = Cardinality(RowsWith(RunRows, "downloaded"))
    /\ (pc = "done" /\ config.max_downloads >= 1
            /\ expansion_stats.references_downloaded = 0) =>
           /\ index = Len(unique_refs) + 1
           /\ expansion_stats.failed_downloads
                  = Cardinality({j \in 1..Len(unique_refs) : Downloadable(unique_refs[j][2])})
           /\ \A j \in 1..Len(unique_refs) :
                  /\ PendingRows(RunRows, unique_refs[j][1]) # {}
                  /\ Downloadable(unique_refs[j][2]) <=>
                         TerminalRows(RunRows, unique_refs[j][1]) # {}

\* a run with a budget of one is over in which two attempts failed, more than
\* the budget, and a survivor without url, doi and arxiv_id was passed by
C25_Witness ==
    /\ pc = "done"
    /\ config.max_downloads = 1
    /\ expansion_stats.references_downloaded = 0
    /\ expansion_stats.failed_downloads = 2
    /\ \E j \in 1..Len(unique_refs) : ~Downloadable(unique_refs[j][2])

\* C26: a survivor without url, doi and arxiv_id is recorded 'pending' and
\* never attempted: when the run is over it has its 'pending' row and no
\* terminal row, and the step that records it makes no resolver or fetch call
\* and leaves references_downloaded, failed_downloads and the budget counter
\* as they were.
C26_CitationOnlyPending ==
    /\ pc = "done" =>
           \A j \in 1..Len(unique_refs) :
               ~Downloadable(unique_refs[j][2]) =>
                   /\ Cardinality(PendingRows(RunRows, unique_refs[j][1])) = 1
                   /\ TerminalRows(RunRows, unique_refs[j][1]) = {}
    /\ (pc = "download" /\ index > 1 /\ ~Downloadable(unique_refs[index - 1][2])) =>
           /\ ~call.made
           /\ LastRow.download_status = "pending"
           /\ DedupKey(LastRow) = unique_refs[index - 1][1]
           /\ downloaded_count = Cardinality(RowsWith(RunRows, "downloaded"))
           /\ expansion_stats.references_downloaded
                  = Cardinality(RowsWith(RunRows, "downloaded"))
           /\ expansion_stats.failed_downloads = Cardinality(RowsWith(RunRows, "failed"))

\* the paths of the 'downloaded' rows the run wrote for this key
DownloadedPaths(key) ==
    {RunRows[i].download_path : i \in RowsOf(RunRows, key) \cap RowsWith(RunRows, "downloaded")}

\* survivors j and k, j the earlier, can both be downloaded, have distinct
\* identity keys and derive one file name
SharedName(j, k) ==
    /\ j < k
    /\ Downloadable(unique_refs[j][2])
    /\ Downloadable(unique_refs[k][2])
    /\ IdentityKey(unique_refs[j][2]) # IdentityKey(unique_refs[k][2])
    /\ Filename(unique_refs[j][2]) = Filename(unique_refs[k][2])

\* the same for an earlier survivor j that was downloaded: k derives the name
\* of the file j was downloaded to
SharedDownload(j, k) ==
    /\ j < k
    /\ DownloadedPaths(unique_refs[j][1]) # {}
    /\ Downloadable(unique_refs[k][2])
    /\ IdentityKey(unique_refs[j][2]) # IdentityKey(unique_refs[k][2])
    /\ TargetPath(Filename(unique_refs[k][2])) \in DownloadedPaths(unique_refs[j][1])

C28_ExistingCountsAsDownload ==
    (call.made /\ call.existed /\ pc = "download") =>
        /\ call.success
        /\ LastRow.download_status = "downloaded"
        /\ LastRow.download_path = TargetPath(call.filename)
        /\ downloaded_count = Cardinality(RowsWith(RunRows, "downloaded"))
        /\ expansion_stats.references_downloaded
               = Cardinality(RowsWith(RunRows, "downloaded"))

\* the scanned documents that lie in the download directory
ScannedDownloads == {d \in Scanned : Section(d.path) = ExpandedDirName}

\* the paths of the files of the download directory with a suffix the run
\* accepts
EligibleDownloads ==
    {TargetPath(f) : f \in {g \in expanded : InSeq(Lower(Suffix(g)), config.file_types)}}

\* C29: the download directory is scanned like any section.  The scan of a run
\* is complete before the run writes a file there, so it lists the files the
\* directory held when the run began and none the run downloads; a later run
\* without a target_sections list scans the files earlier runs downloaded and
\* extracts from them.
C29_DownloadsScanned ==
    /\ []((pc = "extract" /\ ~config.target_sections.given) =>
             {d.path : d \in ScannedDownloads} = EligibleDownloads)
    /\ []((InRun /\ Truthy(config.target_sections)
               /\ ~InSeq(ExpandedDirName, config.target_sections.names)) =>
             ScannedDownloads = {})
    /\ [][expanded' # expanded =>
             /\ pc = "attempt"
             /\ doc_index > Len(documents_to_process)
             /\ documents_to_process' = documents_to_process
             /\ \A f \in expanded' \ expanded :
                    \A d \in Scanned : d.path # TargetPath(f)]_vars
    /\ [][(runs' = runs /\ pc # "done") =>
             documents_to_process' = documents_to_process]_vars

\* the second run, called without target_sections, has read the file the
\* first run downloaded and taken a reference from it
C29_Witness ==
    /\ runs = 2
    /\ pc = "extract"
    /\ ~config.target_sections.given
    /\ \E i \in 1..row_base :
           /\ ref_citations[i].download_status = "downloaded"
           /\ \E k \in 1..(doc_index - 1) :
                  documents_to_process[k].path = ref_citations[i].download_path
           /\ \E k \in 1..Len(all_references) :
                  all_references[k].source_document = ref_citations[i].download_path

RECURSIVE SumOf(_, _)
SumOf(results, field) ==
    IF results = <<>> THEN 0 ELSE Head(results)[field] + SumOf(Tail(results), field)

\* the limit of the failures has been passed
FailuresExceeded ==
    /\ "maximum_failures" \in DOMAIN plan.success_criteria
    /\ execution_log.total_failures > plan.success_criteria.maximum_failures

\* C30: execute_expansion_plan calls execute_phase for the phases in the order
\* of the plan and calls it no more once total_failures has passed
\* success_criteria.maximum_failures; when the local model is not available it
\* calls it for no phase and returns an error result; total_downloads and
\* total_failures are the sums over the phases that returned a result.
C30_PlanExecution ==
    /\ [](/\ Len(phase_calls) <= Len(plan.expansion_plan)
          /\ \A i \in 1..Len(phase_calls) : phase_calls[i] = plan.expansion_plan[i][1])
    /\ [][phase_calls' # phase_calls =>
             /\ ~FailuresExceeded
             /\ local_model
             /\ Len(phase_calls') = Len(phase_calls) + 1]_vars
    /\ [](FailuresExceeded => plan_pc \in {"final", "returned"})
    /\ [](~local_model =>
             /\ phase_calls = <<>>
             /\ phase_results = <<>>
             /\ execution_log = ExecutionLog0
             /\ plan_pc \in {"ready", "returned"}
             /\ plan_pc = "returned" =>
                    final_results = [returned |-> TRUE, error |-> "Local model not available"])
    /\ [](/\ execution_log.total_downloads = SumOf(phase_results, "downloads")
          /\ execution_log.total_failures = SumOf(phase_results, "failures")
          /\ Len(execution_log.phases_completed) = Len(phase_results)
          /\ \A i \in 1..Len(phase_results) :
                 phase_results[i].phase = execution_log.phases_completed[i]
          /\ (plan_pc = "returned" /\ local_model) =>
                 /\ final_results.phase_results = phase_results
                 /\ final_results.execution_summary = execution_log)

\* a plan of two phases returned after its first phase, whose failures passed
\* the limit; the totals are those of that phase
C30_Witness ==
    /\ plan_pc = "returned"
    /\ local_model
    /\ Len(plan.expansion_plan) = 2
    /\ phase_calls = <<plan.expansion_plan[1][1]>>
    /\ FailuresExceeded
    /\ Len(final_results.phase_results) = 1
    /\ final_results.execution_summary.total_failures = 1
    /\ final_results.execution_summary.total_downloads = 2

====
